---- MODULE Spec2Model ----
(***************************************************************************)
(* Model of netblin_cli: the orchestrator Pipeline.run (pipeline.py), the  *)
(* rephrase extractor OllamaClient.process_transcript and its response     *)
(* parser OllamaClient._parse_response (ollama_client.py), and the         *)
(* temporary directory handled by VideoProcessor (video_processor.py).     *)
(*                                                                         *)
(* Three specifications share the variables:                               *)
(*   Spec         one Pipeline instance, constructed and run MaxRuns times *)
(*   SpecExtract  one call of process_transcript over a drawn transcript   *)
(*   SpecParse    one call of _parse_response over a drawn response text   *)
(***************************************************************************)
EXTENDS Integers, Sequences, FiniteSets, TLC

VARIABLES
    \* ---- Pipeline (pipeline.py) and the file system it touches
    pc,            \* position of the caller / of Pipeline.run
    keep_temp,     \* self.keep_temp
    dry_run,       \* argument dry_run of the current run
    video_exists,  \* video_path.exists() of the current run
    temp_dir,      \* TEMP_DIR exists
    files,         \* names of the files inside TEMP_DIR
    started,       \* stages started by the current run, in order
    completed,     \* stages of the current run that returned normally
    exc,           \* exception raised inside the try block ("" = none)
    result,        \* how the current run ended
    raised,        \* exception that left Pipeline.run ("" = none)
    created,       \* file-system entries created since construction (first
                   \* run) or since the start of the current run (later runs)
    runs,          \* number of Pipeline.run invocations so far
    \* ---- OllamaClient.process_transcript
    xpc,           \* position inside process_transcript
    nWords,        \* len(words)
    i,             \* loop variable of range(0, len(words), chunk_size)
    requests,      \* chunks handed to generate(), as [lo, hi] word ranges
    responses,     \* texts returned by generate(), in request order
    all_segments,  \* the list all_segments
    skipped,       \* chunk numbers reported as "не распарсился"
    xerr,          \* exception that left process_transcript ("" = none)
    \* ---- OllamaClient._parse_response
    ppc,           \* position of the parse experiment
    pitems,        \* the elements of the structured array A
    pstyle,        \* how A is wrapped into the response text
    pbrackets,     \* whether the commentary holds a '[' or a ']'
    presponse,     \* the response text
    pout,          \* what _parse_response returned for presponse
    \* ---- Pipeline.run from line 96 on: synthesis, rendering, concatenation
    segments,      \* the list segments (records original/antonym/start/end)
    video_info,    \* the VideoInfo of the source video
    use_silero,    \* self.tts.use_silero
    idx,           \* loop variable i of the loops of lines 121 and 143
    audio_files,   \* the list audio_files
    all_clips,     \* the list all_clips
    calls,         \* collaborator calls issued so far, in order
    output_video,  \* the file at output_path: "absent", "partial", "complete"
    \* ---- cli.main
    exit_code,     \* status the process exited with (-1 = it has not exited)
    \* ---- Transcriber.transcribe, the loop over data["transcription"]
    npc,           \* position inside transcribe
    transcription, \* data["transcription"]: the raw segments whisper.cpp wrote
    nidx,          \* number of raw segments the loop has taken
    words,         \* the list words
    full_text,     \* the string full_text
    \* ---- VideoProcessor.create_reaction_clip, the frame it composes
    gpc,           \* position of the composition
    ggeometry,     \* <<width, height>> of the source video
    gimage,        \* <<width, height>> of the still image
    gframe         \* the fit chosen and the frame ffmpeg's filters produce

pipeVars  == <<pc, keep_temp, dry_run, video_exists, temp_dir, files, started,
               completed, exc, result, raised, created, runs>>
extVars   == <<xpc, nWords, i, requests, responses, all_segments, skipped, xerr>>
parseVars == <<ppc, pitems, pstyle, pbrackets, presponse, pout>>
stageVars == <<segments, video_info, use_silero, idx, audio_files, all_clips,
               calls, output_video>>
cliVars   == <<exit_code>>
normVars  == <<npc, transcription, nidx, words, full_text>>
geoVars   == <<gpc, ggeometry, gimage, gframe>>
vars      == <<pipeVars, extVars, parseVars, stageVars, cliVars, normVars,
               geoVars>>

\* The variables an action of one component leaves alone.
notPipeVars  == <<extVars, parseVars, stageVars, cliVars, normVars, geoVars>>
notExtVars   == <<pipeVars, parseVars, stageVars, cliVars, normVars, geoVars>>
notParseVars == <<pipeVars, extVars, stageVars, cliVars, normVars, geoVars>>
notStageVars == <<extVars, parseVars, cliVars, normVars, geoVars>>
notNormVars  == <<pipeVars, extVars, parseVars, stageVars, cliVars, geoVars>>
notGeoVars   == <<pipeVars, extVars, parseVars, stageVars, cliVars, normVars>>

\* ------------------------------------------------------------------ bounds
MaxRuns == 2

\* --------------------------------------------------------------- Pipeline

Range(f) == {f[k] : k \in DOMAIN f}

\* The stages of Pipeline.run in the order of the source text.
StageOrder ==
    <<"ProviderHealthCheck", "VideoInspect", "AudioExtract", "Transcribe",
      "Rephrase", "Synthesize", "RenderClips", "Concatenate", "Cleanup">>

StageIndex(s) == CHOOSE k \in 1..Len(StageOrder) : StageOrder[k] = s

\* Attributes of the object Transcriber.transcribe returns.
TranscriptResultFields == {"text", "language", "words"}

\* Methods of OllamaClient.
OllamaClientMethods ==
    {"check_connection", "generate", "_parse_response", "process_transcript"}

\* Exceptions an external collaborator (ffprobe, ffmpeg, whisper.cpp) raises.
CollaboratorErrors == {"ProbeError", "CalledProcessError", "WhisperError"}

PipeOff ==
    /\ pc = "off" /\ keep_temp = FALSE /\ dry_run = FALSE
    /\ video_exists = FALSE /\ temp_dir = FALSE /\ files = {}
    /\ started = <<>> /\ completed = {} /\ exc = "" /\ result = "off"
    /\ raised = "" /\ created = {} /\ runs = 0

ExtOff ==
    /\ xpc = "off" /\ nWords = 0 /\ i = 0 /\ requests = <<>>
    /\ responses = <<>> /\ all_segments = <<>> /\ skipped = {} /\ xerr = ""

ParseOff ==
    /\ ppc = "off" /\ pitems = <<>> /\ pstyle = "off" /\ pbrackets = FALSE
    /\ presponse = <<>> /\ pout = [ok |-> FALSE, kind |-> "off", items |-> <<>>]

NoVideoInfo == [width |-> 0, height |-> 0, fps |-> <<0, 1>>]

StageOff ==
    /\ segments = <<>> /\ video_info = NoVideoInfo /\ use_silero = FALSE
    /\ idx = 0 /\ audio_files = <<>> /\ all_clips = <<>> /\ calls = <<>>
    /\ output_video = "absent"

CliOff == exit_code = -1

NormOff ==
    /\ npc = "off" /\ transcription = <<>> /\ nidx = 0 /\ words = <<>>
    /\ full_text = <<>>

GeoOff ==
    /\ gpc = "off" /\ ggeometry = <<0, 0>> /\ gimage = <<0, 0>>
    /\ gframe = [fit |-> "", scaled |-> <<0, 0>>, ok |-> FALSE,
                 frame |-> <<0, 0>>]

\* Before Pipeline(...) is called: TEMP_DIR may be left over from an earlier
\* process or not exist; keep_temp is the constructor's argument.
Init ==
    /\ pc = "new"
    /\ keep_temp \in BOOLEAN
    /\ temp_dir \in BOOLEAN
    /\ files = {}
    /\ dry_run = FALSE /\ video_exists = FALSE
    /\ started = <<>> /\ completed = {} /\ exc = "" /\ result = "pending"
    /\ raised = "" /\ created = {} /\ runs = 0
    /\ ExtOff /\ ParseOff /\ StageOff /\ CliOff /\ NormOff /\ GeoOff

\* VideoProcessor.__init__: self.temp_dir.mkdir(exist_ok=True).
VideoProcessorInit ==
    /\ temp_dir' = TRUE
    /\ created' = IF temp_dir THEN created ELSE created \cup {"temp"}
    /\ UNCHANGED files

\* VideoProcessor.cleanup: rmtree(temp_dir) when it exists.
cleanup ==
    /\ temp_dir' = FALSE
    /\ files' = {}

\* Pipeline.__init__: Transcriber(...) raises FileNotFoundError when
\* whisper.cpp or its model is missing; OllamaClient and TTSEngine follow;
\* VideoProcessor(TEMP_DIR) comes last.
Construct ==
    /\ pc = "new"
    /\ \E whisperInstalled \in BOOLEAN :
         IF whisperInstalled
         THEN /\ VideoProcessorInit
              /\ pc' = "ready"
         ELSE /\ pc' = "ctor_failed"
              /\ UNCHANGED <<temp_dir, files, created>>
    /\ UNCHANGED <<keep_temp, dry_run, video_exists, started, completed, exc,
                   result, raised, runs>>
    /\ UNCHANGED notPipeVars

\* Pipeline.run, lines 47-62: a missing video returns None at once.
RunBegin ==
    /\ pc \in {"ready", "ended"}
    /\ runs < MaxRuns
    /\ \E v \in BOOLEAN, d \in BOOLEAN :
         /\ video_exists' = v
         /\ dry_run' = d
         /\ IF v THEN pc' = "health" /\ result' = "pending"
                 ELSE pc' = "ended" /\ result' = "none"
    /\ runs' = runs + 1
    /\ started' = <<>> /\ completed' = {} /\ exc' = "" /\ raised' = ""
    /\ created' = IF runs = 0 THEN created ELSE {}
    /\ UNCHANGED <<keep_temp, temp_dir, files>>
    /\ UNCHANGED notPipeVars

\* ProviderHealthCheck without the early return: an unreachable provider is
\* reported and the run goes on.
ProviderHealthCheck_noReturn ==
    /\ pc = "health"
    /\ started' = Append(started, "ProviderHealthCheck")
    /\ \E reachable \in BOOLEAN :
         /\ completed' = IF reachable
                         THEN completed \cup {"ProviderHealthCheck"}
                         ELSE completed
         /\ pc' = "inspect"
    /\ UNCHANGED <<keep_temp, dry_run, video_exists, temp_dir, files, exc,
                   result, raised, created, runs>>
    /\ UNCHANGED notPipeVars

\* Lines 64-68: check_connection() false returns None, outside the try block.
ProviderHealthCheck ==
    /\ pc = "health"
    /\ started' = Append(started, "ProviderHealthCheck")
    /\ \E reachable \in BOOLEAN :
         IF reachable
         THEN /\ completed' = completed \cup {"ProviderHealthCheck"}
              /\ pc' = "inspect"
              /\ UNCHANGED result
         ELSE /\ pc' = "ended"
              /\ result' = "none"
              /\ UNCHANGED completed
    /\ UNCHANGED <<keep_temp, dry_run, video_exists, temp_dir, files, exc,
                   raised, created, runs>>
    /\ UNCHANGED notPipeVars

\* VideoInspect with its failure swallowed: the run goes on to AudioExtract.
VideoInspect_swallow ==
    /\ pc = "inspect"
    /\ started' = Append(started, "VideoInspect")
    /\ \E ok \in BOOLEAN :
         /\ completed' = IF ok THEN completed \cup {"VideoInspect"}
                               ELSE completed
         /\ pc' = "extract"
    /\ UNCHANGED <<keep_temp, dry_run, video_exists, temp_dir, files, exc,
                   result, raised, created, runs>>
    /\ UNCHANGED notPipeVars

\* Lines 71-76: get_video_info raises when ffprobe prints no JSON or the file
\* has no video stream.
VideoInspect ==
    /\ pc = "inspect"
    /\ started' = Append(started, "VideoInspect")
    /\ \E ok \in BOOLEAN :
         IF ok
         THEN /\ completed' = completed \cup {"VideoInspect"}
              /\ pc' = "extract"
              /\ UNCHANGED exc
         ELSE /\ exc' = "ProbeError"
              /\ pc' = "handler"
              /\ UNCHANGED completed
    /\ UNCHANGED <<keep_temp, dry_run, video_exists, temp_dir, files, result,
                   raised, created, runs>>
    /\ UNCHANGED notPipeVars

\* Lines 78-83: extract_audio writes TEMP_DIR/audio.wav; ffmpeg fails
\* (check=True) on its own account or because TEMP_DIR does not exist.
AudioExtract ==
    /\ pc = "extract"
    /\ started' = Append(started, "AudioExtract")
    /\ \E ok \in (IF temp_dir THEN BOOLEAN ELSE {FALSE}) :
         IF ok
         THEN /\ files' = files \cup {"audio.wav"}
              /\ created' = created \cup {"audio.wav"}
              /\ completed' = completed \cup {"AudioExtract"}
              /\ pc' = "transcribe"
              /\ UNCHANGED exc
         ELSE /\ exc' = "CalledProcessError"
              /\ pc' = "handler"
              /\ UNCHANGED <<files, created, completed>>
    /\ UNCHANGED <<keep_temp, dry_run, video_exists, temp_dir, result, raised,
                   runs>>
    /\ UNCHANGED notPipeVars

\* Line 87, Transcriber.transcribe: whisper.cpp writes TEMP_DIR/audio.json,
\* which is read and unlinked; it fails with a non-zero return code (no
\* JSON written) or with a JSON file that does not load (file left behind).
Transcribe ==
    /\ pc = "transcribe"
    /\ started' = Append(started, "Transcribe")
    /\ \E outcome \in {"ok", "returncode", "badjson"} :
         CASE outcome = "ok" ->
                /\ created' = created \cup {"audio.json"}
                /\ completed' = completed \cup {"Transcribe"}
                /\ pc' = "report"
                /\ UNCHANGED <<files, exc>>
           [] outcome = "returncode" ->
                /\ exc' = "WhisperError"
                /\ pc' = "handler"
                /\ UNCHANGED <<files, created, completed>>
           [] outcome = "badjson" ->
                /\ files' = files \cup {"audio.json"}
                /\ created' = created \cup {"audio.json"}
                /\ exc' = "WhisperError"
                /\ pc' = "handler"
                /\ UNCHANGED completed
    /\ UNCHANGED <<keep_temp, dry_run, video_exists, temp_dir, result, raised,
                   runs>>
    /\ UNCHANGED notPipeVars

\* Lines 88-94: transcript.language, then transcript.segments and
\* self.ollama.process_segments: an attribute the object does not have
\* raises AttributeError inside the try block.
TranscriptReport ==
    /\ pc = "report"
    /\ IF /\ "language" \in TranscriptResultFields
          /\ "segments" \in TranscriptResultFields
          /\ "process_segments" \in OllamaClientMethods
       THEN /\ pc' = "rephrase"
            /\ UNCHANGED exc
       ELSE /\ exc' = "AttributeError"
            /\ pc' = "handler"
    /\ UNCHANGED <<keep_temp, dry_run, video_exists, temp_dir, files, started,
                   completed, result, raised, created, runs>>
    /\ UNCHANGED notPipeVars

\* ExceptHandler without the final raise: the run returns None.
ExceptHandler_noRaise ==
    /\ pc = "handler"
    /\ IF ~keep_temp
       THEN /\ started' = Append(started, "Cleanup")
            /\ cleanup
       ELSE UNCHANGED <<started, temp_dir, files>>
    /\ raised' = ""
    /\ result' = "none"
    /\ pc' = "ended"
    /\ UNCHANGED <<keep_temp, dry_run, video_exists, completed, exc, created,
                   runs>>
    /\ UNCHANGED notPipeVars

\* ExceptHandler that re-raises without calling cleanup.
ExceptHandler_noCleanup ==
    /\ pc = "handler"
    /\ raised' = exc
    /\ result' = "raised"
    /\ pc' = "ended"
    /\ UNCHANGED <<keep_temp, dry_run, video_exists, temp_dir, files, started,
                   completed, exc, created, runs>>
    /\ UNCHANGED notPipeVars

\* Lines 187-191: except Exception: cleanup unless keep_temp, then re-raise.
ExceptHandler ==
    /\ pc = "handler"
    /\ IF ~keep_temp
       THEN /\ started' = Append(started, "Cleanup")
            /\ cleanup
       ELSE UNCHANGED <<started, temp_dir, files>>
    /\ raised' = exc
    /\ result' = "raised"
    /\ pc' = "ended"
    /\ UNCHANGED <<keep_temp, dry_run, video_exists, completed, exc, created,
                   runs>>
    /\ UNCHANGED notPipeVars

Next ==
    \/ Construct
    \/ RunBegin
    \/ ProviderHealthCheck
    \/ VideoInspect
    \/ AudioExtract
    \/ Transcribe
    \/ TranscriptReport
    \/ ExceptHandler

Spec == Init /\ [][Next]_vars

\* ---------------------------------------------------------------- cli.main

\* Positions of Pipeline.run at which a call of a collaborator is in flight.
InFlight ==
    {"health", "inspect", "extract", "transcribe", "synthesize", "render",
     "concat"}

\* SIGINT while a collaborator call is in flight: KeyboardInterrupt is
\* raised in Pipeline.run; it is no Exception, so the clause of
\* pipeline.py:187 does not catch it and it leaves run as it is.
Interrupt ==
    /\ pc \in InFlight
    /\ raised' = "KeyboardInterrupt"
    /\ result' = "interrupted"
    /\ pc' = "ended"
    /\ UNCHANGED <<keep_temp, dry_run, video_exists, temp_dir, files, started,
                   completed, exc, created, runs>>
    /\ UNCHANGED notPipeVars

\* cli.py:115-143: an exception of Pipeline(...) is not caught (the
\* interpreter exits with 1); a truthy result of run exits 0, None exits 1,
\* KeyboardInterrupt exits 130, any other exception exits 1.
MainExit ==
    /\ pc \in {"ended", "ctor_failed"}
    /\ exit_code' =
         IF pc = "ctor_failed" THEN 1
         ELSE CASE result = "path" -> 0
                [] result = "none" -> 1
                [] result = "interrupted" -> 130
                [] OTHER -> 1
    /\ pc' = "exited"
    /\ UNCHANGED <<keep_temp, dry_run, video_exists, temp_dir, files, started,
                   completed, exc, result, raised, created, runs>>
    /\ UNCHANGED <<extVars, parseVars, stageVars, normVars, geoVars>>

\* cli.py:126: main calls pipeline.run once.
MainRun == runs = 0 /\ RunBegin

NextCli ==
    \/ Construct
    \/ MainRun
    \/ ProviderHealthCheck
    \/ VideoInspect
    \/ AudioExtract
    \/ Transcribe
    \/ TranscriptReport
    \/ ExceptHandler
    \/ Interrupt
    \/ MainExit

SpecCli == Init /\ [][NextCli]_vars

\* ------------------------------------- Pipeline.run from line 96 to the end
MaxSegments == 3

\* f"{i:03d}"
Fmt03(n) ==
    IF n < 10 THEN "00" \o ToString(n)
    ELSE IF n < 100 THEN "0" \o ToString(n)
    ELSE ToString(n)

\* TEMP_DIR / f"tts_{i:03d}.mp3", and the path TTSEngine.generate returns
\* for it: Silero writes output_path.with_suffix(".wav").
TtsFile(n) == "tts_" \o Fmt03(n) \o ".mp3"
TtsActualPath(n, silero) ==
    IF silero THEN "tts_" \o Fmt03(n) \o ".wav" ELSE TtsFile(n)
OrigClip(n) == "orig_" \o Fmt03(n) \o ".mp4"
\* Line 156 with the name of line 149.
ReactClip_orig(n) == "orig_" \o Fmt03(n) \o ".mp4"

ReactClip(n) == "react_" \o Fmt03(n) \o ".mp4"

\* Records the rephrase stage may hand on: times 0/0 and -1/0 are not
\* positive anywhere, 0/1 has a zero start only.
SegmentValues ==
    { [original |-> "z", antonym |-> "Z", start |-> 0, end |-> 0],
      [original |-> "a", antonym |-> "A", start |-> 0, end |-> 1],
      [original |-> "b", antonym |-> "B", start |-> 2, end |-> 3],
      [original |-> "n", antonym |-> "N", start |-> -1, end |-> 0] }

SegmentLists == UNION {[1..n -> SegmentValues] : n \in 1..MaxSegments}

\* VideoInfo values get_video_info returns; fps is the fraction
\* r_frame_rate names, <<numerator, denominator>>.
VideoInfos ==
    { [width |-> 1920, height |-> 1080, fps |-> <<30000, 1001>>],
      [width |-> 1080, height |-> 1920, fps |-> <<30, 1>>] }

\* VideoInfo.is_horizontal
is_horizontal(info) == info.width > info.height

\* int(video_info.fps) of a positive rate: truncation.
IntFps(fps) == fps[1] \div fps[2]

\* What ffprobe prints for the duration of an audio file, stripped: nothing,
\* "N/A", or a number (seconds).
ProbeOutputs == {<<"empty", 0>>, <<"na", 0>>, <<"num", 1>>, <<"num", 2>>}

NoCall ==
    [op |-> "", i |-> 0, start |-> 0, end |-> 0, text |-> "", audio |-> "",
     out |-> "", t |-> 0, r |-> 0, info |-> NoVideoInfo, clips |-> <<>>,
     stdout |-> <<"", 0>>]

\* Line 159 reading the entry after the record's own.
AudioFor_next(paths, n) ==
    paths[IF n + 2 <= Len(paths) THEN n + 2 ELSE Len(paths)]

\* Line 159: audio_files[i].
AudioFor(paths, n) == paths[n + 1]

\* Line 145 with "or": a record is skipped when either time is not positive.
TimingInvalid_or(seg) == seg.start <= 0 \/ seg.end <= 0

\* Line 145: seg.start <= 0 and seg.end <= 0.
TimingInvalid(seg) == seg.start <= 0 /\ seg.end <= 0

\* The state after line 104: the stages up to Rephrase have completed and
\* handed on a non-empty list of records.
InitStages ==
    /\ ExtOff /\ ParseOff /\ CliOff /\ NormOff /\ GeoOff
    /\ pc = "preview"
    /\ keep_temp \in BOOLEAN
    /\ dry_run \in BOOLEAN
    /\ video_exists = TRUE
    /\ temp_dir = TRUE
    /\ files = {"audio.wav"}
    /\ started = SubSeq(StageOrder, 1, 5)
    /\ completed = Range(SubSeq(StageOrder, 1, 5))
    /\ exc = "" /\ result = "pending" /\ raised = ""
    /\ created = {"audio.wav", "audio.json"}
    /\ runs = 1
    /\ segments \in SegmentLists
    /\ video_info \in VideoInfos
    /\ use_silero \in BOOLEAN
    /\ idx = 0 /\ audio_files = <<>> /\ all_clips = <<>> /\ calls = <<>>
    /\ output_video = "absent"

\* Lines 106-120: with dry_run the run returns None here; otherwise stage 5
\* begins with audio_files = [].
DryRunExit ==
    /\ pc = "preview"
    /\ IF dry_run
       THEN /\ result' = "none"
            /\ pc' = "ended"
            /\ UNCHANGED started
       ELSE /\ started' = Append(started, "Synthesize")
            /\ pc' = "synthesize"
            /\ UNCHANGED result
    /\ idx' = 0
    /\ audio_files' = <<>>
    /\ UNCHANGED <<keep_temp, dry_run, video_exists, temp_dir, files,
                   completed, exc, raised, created, runs>>
    /\ UNCHANGED <<segments, video_info, use_silero, all_clips, calls,
                   output_video>>
    /\ UNCHANGED notStageVars

\* Lines 121-126, one iteration: tts.generate(seg.antonym, audio_file)
\* writes the audio file and returns its path, or raises.
Synthesize ==
    /\ pc = "synthesize"
    /\ idx < Len(segments)
    /\ LET seg == segments[idx + 1]
           actual_path == TtsActualPath(idx, use_silero)
       IN  /\ calls' = Append(calls, [NoCall EXCEPT !.op = "tts", !.i = idx,
                                         !.text = seg.antonym,
                                         !.out = TtsFile(idx)])
           /\ \E ok \in (IF temp_dir THEN BOOLEAN ELSE {FALSE}) :
                IF ok
                THEN /\ files' = files \cup {actual_path}
                     /\ created' = created \cup {actual_path}
                     /\ audio_files' = Append(audio_files, actual_path)
                     /\ idx' = idx + 1
                     /\ UNCHANGED <<pc, exc>>
                ELSE /\ exc' = "TTSError"
                     /\ pc' = "handler"
                     /\ UNCHANGED <<files, created, audio_files, idx>>
    /\ UNCHANGED <<keep_temp, dry_run, video_exists, temp_dir, started,
                   completed, result, raised, runs>>
    /\ UNCHANGED <<segments, video_info, use_silero, all_clips, output_video>>
    /\ UNCHANGED notStageVars

\* Lines 127-141: the synthesis loop is over; stage 6 begins with
\* all_clips = [].
SynthesizeEnd ==
    /\ pc = "synthesize"
    /\ idx >= Len(segments)
    /\ completed' = completed \cup {"Synthesize"}
    /\ started' = Append(started, "RenderClips")
    /\ all_clips' = <<>>
    /\ idx' = 0
    /\ pc' = "render"
    /\ UNCHANGED <<keep_temp, dry_run, video_exists, temp_dir, files, exc,
                   result, raised, created, runs>>
    /\ UNCHANGED <<segments, video_info, use_silero, audio_files, calls,
                   output_video>>
    /\ UNCHANGED notStageVars

\* Lines 126-130 with a duration of 0 substituted when none is printed.
ProbeDuration_fallback(out) ==
    IF out[1] = "num" THEN [exc |-> "", value |-> out[2]]
    ELSE [exc |-> "", value |-> 0]

\* Lines 126-130 of create_reaction_clip: an empty duration raises
\* ValueError, and so does float() of a text that is no number.
ProbeDuration(out) ==
    IF out[1] = "num" THEN [exc |-> "", value |-> out[2]]
    ELSE [exc |-> "ValueError", value |-> 0]

NoFilter == [fit |-> "", scale |-> <<0, 0>>, pad |-> <<0, 0>>, offset |-> ""]

\* Lines 132-142 of create_reaction_clip: scale=-1:h and
\* pad=w:h:(ow-iw)/2:0 for a horizontal video, scale=w:-1 and
\* pad=w:h:0:(oh-ih)/2 otherwise.
ReactionFilter(info) ==
    IF is_horizontal(info)
    THEN [fit |-> "pillarbox", scale |-> <<-1, info.height>>,
          pad |-> <<info.width, info.height>>, offset |-> "x"]
    ELSE [fit |-> "letterbox", scale |-> <<info.width, -1>>,
          pad |-> <<info.width, info.height>>, offset |-> "y"]

\* Lines 143-166, one iteration: a timing-invalid record is passed over;
\* otherwise cut_video, then create_reaction_clip, which probes the audio
\* duration and then runs the composite command. Any of the three external
\* commands may fail.
RenderClips ==
    /\ pc = "render"
    /\ idx < Len(segments)
    /\ LET seg == segments[idx + 1]
           cut == [NoCall EXCEPT !.op = "cut", !.i = idx,
                      !.start = seg.start, !.end = seg.end,
                      !.t = seg.end - seg.start, !.out = OrigClip(idx)]
           react == [NoCall EXCEPT !.op = "react", !.i = idx,
                        !.audio = AudioFor(audio_files, idx), !.text = seg.antonym,
                        !.info = video_info, !.out = ReactClip(idx)]
       IN  IF TimingInvalid(seg)
           THEN /\ idx' = idx + 1
                /\ UNCHANGED <<pc, exc, files, created, all_clips, calls>>
           ELSE \E cut_ok \in (IF temp_dir THEN BOOLEAN ELSE {FALSE}),
                   out \in ProbeOutputs, composite_ok \in BOOLEAN :
                  LET d == ProbeDuration(out)
                      probe == [NoCall EXCEPT !.op = "probe", !.i = idx,
                                   !.audio = AudioFor(audio_files, idx),
                                   !.stdout = out]
                      composite ==
                          [NoCall EXCEPT !.op = "composite", !.i = idx,
                              !.audio = AudioFor(audio_files, idx),
                              !.text = seg.antonym, !.t = d.value,
                              !.r = IntFps(video_info.fps),
                              !.info = video_info, !.out = ReactClip(idx)]
                  IN  IF ~cut_ok
                      THEN /\ calls' = calls \o <<cut>>
                           /\ exc' = "CalledProcessError"
                           /\ pc' = "handler"
                           /\ UNCHANGED <<files, created, all_clips, idx>>
                      ELSE IF d.exc # ""
                      THEN /\ calls' = calls \o <<cut, react, probe>>
                           /\ files' = files \cup {OrigClip(idx)}
                           /\ created' = created \cup {OrigClip(idx)}
                           /\ all_clips' = Append(all_clips, OrigClip(idx))
                           /\ exc' = d.exc
                           /\ pc' = "handler"
                           /\ UNCHANGED idx
                      ELSE IF ~composite_ok
                      THEN /\ calls' = calls \o <<cut, react, probe, composite>>
                           /\ files' = files \cup {OrigClip(idx)}
                           /\ created' = created \cup {OrigClip(idx)}
                           /\ all_clips' = Append(all_clips, OrigClip(idx))
                           /\ exc' = "CalledProcessError"
                           /\ pc' = "handler"
                           /\ UNCHANGED idx
                      ELSE /\ calls' = calls \o <<cut, react, probe, composite>>
                           /\ files' = files \cup {OrigClip(idx), ReactClip(idx)}
                           /\ created' =
                                created \cup {OrigClip(idx), ReactClip(idx)}
                           /\ all_clips' =
                                all_clips \o <<OrigClip(idx), ReactClip(idx)>>
                           /\ idx' = idx + 1
                           /\ UNCHANGED <<pc, exc>>
    /\ UNCHANGED <<keep_temp, dry_run, video_exists, temp_dir, started,
                   completed, result, raised, runs>>
    /\ UNCHANGED <<segments, video_info, use_silero, audio_files,
                   output_video>>
    /\ UNCHANGED notStageVars

\* Lines 168-173: the render loop is over; stage 7 begins.
RenderClipsEnd ==
    /\ pc = "render"
    /\ idx >= Len(segments)
    /\ completed' = completed \cup {"RenderClips"}
    /\ started' = Append(started, "Concatenate")
    /\ pc' = "concat"
    /\ UNCHANGED <<keep_temp, dry_run, video_exists, temp_dir, files, exc,
                   result, raised, created, runs>>
    /\ UNCHANGED stageVars
    /\ UNCHANGED notStageVars

\* Line 174, concat_videos: the list file is written into temp_dir, then
\* ffmpeg -y writes output_path itself. ffmpeg fails (check=True) before it
\* has opened the output or after it has written part of it; an empty list
\* gives it nothing to read.
Concatenate ==
    /\ pc = "concat"
    /\ IF ~temp_dir
       THEN /\ exc' = "FileNotFoundError"
            /\ pc' = "handler"
            /\ UNCHANGED <<files, created, calls, output_video, completed>>
       ELSE /\ files' = files \cup {"concat_list.txt"}
            /\ created' = created \cup {"concat_list.txt"}
            /\ calls' = Append(calls, [NoCall EXCEPT !.op = "concat",
                                          !.clips = all_clips])
            /\ \E outcome \in (IF Len(all_clips) = 0 THEN {"unopened"}
                               ELSE {"ok", "unopened", "partial"}) :
                 CASE outcome = "ok" ->
                        /\ output_video' = "complete"
                        /\ completed' = completed \cup {"Concatenate"}
                        /\ pc' = "finish"
                        /\ UNCHANGED exc
                   [] outcome = "unopened" ->
                        /\ exc' = "CalledProcessError"
                        /\ pc' = "handler"
                        /\ UNCHANGED <<output_video, completed>>
                   [] outcome = "partial" ->
                        /\ output_video' = "partial"
                        /\ exc' = "CalledProcessError"
                        /\ pc' = "handler"
                        /\ UNCHANGED completed
    /\ UNCHANGED <<keep_temp, dry_run, video_exists, temp_dir, started,
                   result, raised, runs>>
    /\ UNCHANGED <<segments, video_info, use_silero, idx, audio_files,
                   all_clips>>
    /\ UNCHANGED notStageVars

\* Lines 178-185: cleanup unless keep_temp, then return output_path.
Finish ==
    /\ pc = "finish"
    /\ IF ~keep_temp
       THEN /\ started' = Append(started, "Cleanup")
            /\ cleanup
       ELSE UNCHANGED <<started, temp_dir, files>>
    /\ result' = "path"
    /\ pc' = "ended"
    /\ UNCHANGED <<keep_temp, dry_run, video_exists, completed, exc, raised,
                   created, runs>>
    /\ UNCHANGED stageVars
    /\ UNCHANGED notStageVars

NextStages ==
    \/ DryRunExit
    \/ Synthesize
    \/ SynthesizeEnd
    \/ RenderClips
    \/ RenderClipsEnd
    \/ Concatenate
    \/ Finish
    \/ ExceptHandler
    \/ Interrupt
    \/ MainExit

SpecStages == InitStages /\ [][NextStages]_vars

\* --------------- create_reaction_clip, lines 132-142: the reaction frame

\* Width and height of source videos and of still images.
Geometries ==
    { <<1920, 1080>>, <<1080, 1920>>, <<1080, 1080>>, <<1280, 720>>,
      <<720, 1280>>, <<640, 480>> }
ImageSizes ==
    { <<512, 512>>, <<1024, 1024>>, <<1920, 1080>>, <<1080, 1920>>,
      <<3000, 1000>>, <<1000, 3000>>, <<800, 600>>, <<600, 800>>,
      <<2560, 1080>>, <<1080, 1080>> }

\* a * b / c rounded to the nearest integer, as ffmpeg's scale filter
\* computes the dimension given as -1.
Rescale(a, b, c) == (2 * a * b + c) \div (2 * c)

\* The size the filter scale=W:H gives an image of size image: a dimension
\* of -1 keeps the aspect ratio.
ScaleOutput(scale, image) ==
    IF scale[1] = -1
    THEN <<Rescale(scale[2], image[1], image[2]), scale[2]>>
    ELSE <<scale[1], Rescale(scale[1], image[2], image[1])>>

\* The filter pad=W:H:...: ffmpeg rejects a padded size smaller than its
\* input in either dimension; otherwise the frame is W x H.
PadOutput(pad, size) ==
    IF size[1] > pad[1] \/ size[2] > pad[2]
    THEN [ok |-> FALSE, frame |-> <<0, 0>>]
    ELSE [ok |-> TRUE, frame |-> pad]

\* The filter chain of lines 137-142 applied to the still image.
ReactionFrame(info, image) ==
    LET f == ReactionFilter(info)
        scaled == ScaleOutput(f.scale, image)
        padded == PadOutput(f.pad, scaled)
    IN  [fit |-> f.fit, scaled |-> scaled, ok |-> padded.ok,
         frame |-> padded.frame]

NoFrame == [fit |-> "", scaled |-> <<0, 0>>, ok |-> FALSE, frame |-> <<0, 0>>]

InitGeometry ==
    /\ PipeOff /\ ExtOff /\ ParseOff /\ StageOff /\ CliOff /\ NormOff
    /\ gpc = "input"
    /\ ggeometry \in Geometries
    /\ gimage \in ImageSizes
    /\ gframe = NoFrame

\* One reaction clip composed for a source video of size ggeometry from a
\* still image of size gimage.
ComposeFrame ==
    /\ gpc = "input"
    /\ gframe' = ReactionFrame([width |-> ggeometry[1],
                                height |-> ggeometry[2],
                                fps |-> <<30, 1>>], gimage)
    /\ gpc' = "done"
    /\ UNCHANGED <<ggeometry, gimage>>
    /\ UNCHANGED notGeoVars

NextGeometry == ComposeFrame

SpecGeometry == InitGeometry /\ [][NextGeometry]_vars

\* ------------------------------------------------ response text (tokens)
\* A text is a sequence of tokens: "[" "]" "," are the JSON punctuation,
\* "sp" and "nl" are a blank and a line feed, "fence" is a run of three
\* backquotes, "w" is a run of other characters (prose, "json"), and an
\* element token stands for the text of one JSON value.

WS == {"sp", "nl"}

\* Element tokens that are JSON objects, and all element tokens ("7" is the
\* number 7).
ObjTokens == {"Ra", "Rb", "Rbad", "Rskip", "Rempty", "Rnull", "Rrev"}
ElemTokens == ObjTokens \cup {"7"}

\* The JSON object an object token stands for; start and end are
\* <<"num", n>> (a number), <<"str", 0>> (a string that is no number),
\* <<"absent", 0>> (no such key), <<"empty", 0>> ("") or <<"null", 0>>.
Denote(tok) ==
    CASE tok = "Ra" -> [original |-> "a", antonym |-> "A",
                        start |-> <<"num", 0>>, end |-> <<"num", 1>>]
      [] tok = "Rb" -> [original |-> "b", antonym |-> "B",
                        start |-> <<"num", 2>>, end |-> <<"num", 3>>]
      [] tok = "Rbad" -> [original |-> "c", antonym |-> "C",
                          start |-> <<"str", 0>>, end |-> <<"num", 1>>]
      [] tok = "Rskip" -> [original |-> "d", antonym |-> "D",
                           start |-> <<"absent", 0>>, end |-> <<"num", 1>>]
      [] tok = "Rnull" -> [original |-> "e", antonym |-> "E",
                           start |-> <<"num", 0>>, end |-> <<"null", 0>>]
      [] tok = "Rempty" -> [original |-> "f", antonym |-> "F",
                            start |-> <<"num", 4>>, end |-> <<"empty", 0>>]
      [] tok = "Rrev" -> [original |-> "g", antonym |-> "G",
                          start |-> <<"num", 4>>, end |-> <<"num", 2>>]

SetMin(S) == CHOOSE x \in S : \A y \in S : x <= y
SetMax(S) == CHOOSE x \in S : \A y \in S : x >= y
Min(a, b) == IF a <= b THEN a ELSE b

\* str.strip()
Strip(s) ==
    LET keep == {k \in 1..Len(s) : s[k] \notin WS}
    IN  IF keep = {} THEN <<>> ELSE SubSeq(s, SetMin(keep), SetMax(keep))

\* str.split("\n")
RECURSIVE SplitLines(_)
SplitLines(s) ==
    LET nls == {k \in 1..Len(s) : s[k] = "nl"}
    IN  IF nls = {} THEN <<s>>
        ELSE <<SubSeq(s, 1, SetMin(nls) - 1)>>
             \o SplitLines(SubSeq(s, SetMin(nls) + 1, Len(s)))

\* "\n".join(lines)
RECURSIVE JoinLines(_)
JoinLines(lines) ==
    IF Len(lines) = 0 THEN <<>>
    ELSE IF Len(lines) = 1 THEN lines[1]
    ELSE lines[1] \o <<"nl">> \o JoinLines(Tail(lines))

\* str.find / str.rfind of a one-character string: 0-based, -1 when absent.
Find(s, ch) ==
    LET at == {k \in 1..Len(s) : s[k] = ch}
    IN  IF at = {} THEN -1 ELSE SetMin(at) - 1
RFind(s, ch) ==
    LET at == {k \in 1..Len(s) : s[k] = ch}
    IN  IF at = {} THEN -1 ELSE SetMax(at) - 1

\* s[a:b] for 0 <= a and 0 <= b <= len(s)
Slice(s, a, b) == SubSeq(s, a + 1, b)

\* Lines 59-62: a response that starts with a fence loses its first line,
\* and its last line when that line is exactly a fence.
StripFences(response) ==
    IF Len(response) > 0 /\ response[1] = "fence"
    THEN LET lines == SplitLines(response)
         IN  JoinLines(IF lines[Len(lines)] = <<"fence">>
                       THEN SubSeq(lines, 2, Len(lines) - 1)
                       ELSE SubSeq(lines, 2, Len(lines)))
    ELSE response

\* ExtractArray with the closing bracket left out of the slice.
ExtractArray_offByOne(response) ==
    LET start_idx == Find(response, "[")
        end_idx == RFind(response, "]")
    IN  IF start_idx # -1 /\ end_idx # -1
        THEN Slice(response, start_idx, end_idx)
        ELSE response

\* Lines 64-69: keep the text from the first "[" to the last "]".
ExtractArray(response) ==
    LET start_idx == Find(response, "[")
        end_idx == RFind(response, "]")
    IN  IF start_idx # -1 /\ end_idx # -1
        THEN Slice(response, start_idx, end_idx + 1)
        ELSE response

\* json.loads over tokens. A value is an element token or an array of
\* values; rep is the element token, or "arr" for an array, and items are
\* the reps of an array's elements.
NoValue == [ok |-> FALSE, next |-> 0, rep |-> "", items |-> <<>>]

RECURSIVE ParseValue(_, _), ParseItems(_, _)
ParseValue(t, k) ==
    IF k > Len(t) THEN NoValue
    ELSE IF t[k] \in ElemTokens
    THEN [ok |-> TRUE, next |-> k + 1, rep |-> t[k], items |-> <<>>]
    ELSE IF t[k] = "["
    THEN IF k + 1 <= Len(t) /\ t[k + 1] = "]"
         THEN [ok |-> TRUE, next |-> k + 2, rep |-> "arr", items |-> <<>>]
         ELSE ParseItems(t, k + 1)
    ELSE NoValue
\* one or more values separated by "," and closed by "]", from position k
ParseItems(t, k) ==
    LET v == ParseValue(t, k)
    IN  IF ~v.ok \/ v.next > Len(t) THEN NoValue
        ELSE IF t[v.next] = "]"
        THEN [ok |-> TRUE, next |-> v.next + 1, rep |-> "arr",
              items |-> <<v.rep>>]
        ELSE IF t[v.next] = ","
        THEN LET r == ParseItems(t, v.next + 1)
             IN  IF r.ok
                 THEN [ok |-> TRUE, next |-> r.next, rep |-> "arr",
                       items |-> <<v.rep>> \o r.items]
                 ELSE NoValue
        ELSE NoValue

NotWs(x) == x \notin WS

JsonLoads(s) ==
    LET t == SelectSeq(s, NotWs)
        v == ParseValue(t, 1)
    IN  IF v.ok /\ v.next = Len(t) + 1
        THEN [ok |-> TRUE,
              kind |-> IF v.rep = "arr" THEN "array"
                       ELSE IF v.rep \in ObjTokens THEN "object"
                       ELSE "number",
              items |-> v.items]
        ELSE [ok |-> FALSE, kind |-> "JSONDecodeError", items |-> <<>>]

\* OllamaClient._parse_response
parse_response(response) ==
    JsonLoads(ExtractArray(StripFences(Strip(response))))

\* ------------------------------------------------------------ SpecParse
MaxItems == 2
MaxComment == 2

\* Element tokens of the arrays drawn for _parse_response.
ParseElems == {"Ra", "7"}
ItemSeqs == UNION {[1..n -> ParseElems] : n \in 0..MaxItems}

\* Commentary around an array: up to MaxComment tokens, prose ("w") among
\* them.
CommentTokens == {"w", "sp", "[", "]"}
CommentSeqs ==
    {c \in UNION {[1..n -> CommentTokens] : n \in 1..MaxComment} :
        \E k \in 1..Len(c) : c[k] = "w"}

\* The text of the array with the given elements: compact, or one element
\* per line.
RECURSIVE RenderItems(_, _)
RenderItems(items, pretty) ==
    IF Len(items) = 0 THEN <<>>
    ELSE IF Len(items) = 1 THEN <<items[1]>>
    ELSE <<items[1], ",", IF pretty THEN "nl" ELSE "sp">>
         \o RenderItems(Tail(items), pretty)

Render(items, pretty) ==
    IF pretty /\ Len(items) > 0
    THEN <<"[", "nl">> \o RenderItems(items, pretty) \o <<"nl", "]">>
    ELSE <<"[">> \o RenderItems(items, pretty) \o <<"]">>

HasBracket(s) == \E k \in 1..Len(s) : s[k] \in {"[", "]"}

\* A response text built around the array A: A alone, A between an opening
\* fence line and a closing fence line, or A between commentary.
InitParse ==
    /\ PipeOff /\ ExtOff /\ StageOff /\ CliOff /\ NormOff /\ GeoOff
    /\ ppc = "input"
    /\ pitems \in ItemSeqs
    /\ pstyle \in {"bare", "fenced", "commentary"}
    /\ pout = [ok |-> FALSE, kind |-> "pending", items |-> <<>>]
    /\ \E pretty \in BOOLEAN :
         LET A == Render(pitems, pretty)
         IN  CASE pstyle = "bare" ->
                    /\ \E pad \in {<<>>, <<"nl">>, <<"sp">>} :
                         presponse = pad \o A \o pad
                    /\ pbrackets = FALSE
               [] pstyle = "fenced" ->
                    /\ \E pad \in {<<>>, <<"nl">>, <<"sp">>},
                          info \in {<<>>, <<"w">>} :
                         presponse = pad \o <<"fence">> \o info \o <<"nl">>
                                     \o A \o <<"nl", "fence">> \o pad
                    /\ pbrackets = FALSE
               [] pstyle = "commentary" ->
                    \E pre \in CommentSeqs, post \in CommentSeqs :
                         /\ presponse = pre \o A \o post
                         /\ pbrackets = (HasBracket(pre) \/ HasBracket(post))

\* One call of _parse_response.
ParseCall ==
    /\ ppc = "input"
    /\ pout' = parse_response(presponse)
    /\ ppc' = "parsed"
    /\ UNCHANGED <<pitems, pstyle, pbrackets, presponse>>
    /\ UNCHANGED notParseVars

NextParse == ParseCall

SpecParse == InitParse /\ [][NextParse]_vars

\* ------------------------------- Transcriber.transcribe, lines 98-136
MaxUnits == 2

\* Rational numbers <<numerator, denominator>>, denominator > 0, for the
\* float arithmetic of lines 117-126.
RatAdd(a, b) == <<a[1] * b[2] + b[1] * a[2], a[2] * b[2]>>
RatScale(k, a) == <<k * a[1], a[2]>>
RatDiv(a, k) == <<a[1], a[2] * k>>
RatEq(a, b) == a[1] * b[2] = b[1] * a[2]

\* segment["text"] as whisper.cpp may write it: no key, empty, blank, or
\* words between blanks and line feeds.
RawTexts ==
    { <<"absent">>, <<>>, <<"sp">>, <<"sp", "nl">>, <<"a">>,
      <<"sp", "a", "sp", "b">>, <<"a", "sp", "b", "nl", "c", "sp">>,
      <<"a", "sp", "b", "sp", "sp", "c", "sp", "d">> }

\* segment["offsets"] in milliseconds: <<"num", n>> or <<"absent", 0>> for
\* each of "from" and "to" (no "offsets" key: both absent).
RawOffsets ==
    { [from |-> <<"num", 0>>, to |-> <<"num", 2000>>],
      [from |-> <<"num", 1000>>, to |-> <<"num", 1600>>],
      [from |-> <<"absent", 0>>, to |-> <<"absent", 0>>],
      [from |-> <<"num", 500>>, to |-> <<"absent", 0>>] }

RawUnits == [text : RawTexts, offsets : RawOffsets]
RawLists == UNION {[1..n -> RawUnits] : n \in 0..MaxUnits}

\* dict.get(key, 0) with another default.
GetOffset_default(v) == IF v[1] = "absent" THEN 1 ELSE v[2]

\* segment.get("offsets", {}).get(key, 0)
GetOffset(v) == IF v[1] = "absent" THEN 0 ELSE v[2]

\* segment.get("text", "").strip()
UnitText(unit) ==
    IF unit.text = <<"absent">> THEN <<>> ELSE Strip(unit.text)

\* The span of word i with every word but the last one half as long.
WordSpan_half(start_ms, end_ms, n, k) ==
    LET duration == end_ms - start_ms
        word_duration == <<duration, 2 * n>>
    IN  [start |-> RatDiv(RatAdd(<<start_ms, 1>>, RatScale(k, word_duration)),
                          1000),
         end |-> RatDiv(RatAdd(<<start_ms, 1>>,
                               RatScale(k + 1, word_duration)), 1000)]

\* Lines 117-126: duration = end_ms - start_ms, word_duration = duration / n,
\* word i spans start_ms + i * word_duration to start_ms + (i + 1) *
\* word_duration, both divided by 1000.
WordSpan(start_ms, end_ms, n, k) ==
    LET duration == end_ms - start_ms
        word_duration == <<duration, n>>
    IN  [start |-> RatDiv(RatAdd(<<start_ms, 1>>, RatScale(k, word_duration)),
                          1000),
         end |-> RatDiv(RatAdd(<<start_ms, 1>>,
                               RatScale(k + 1, word_duration)), 1000)]

\* Lines 104-127 for one segment: the Word objects it adds.
UnitWords(unit) ==
    LET text == UnitText(unit)
        start_ms == GetOffset(unit.offsets.from)
        end_ms == GetOffset(unit.offsets.to)
        segment_words == SelectSeq(text, NotWs)
    IN  IF Len(text) = 0 THEN <<>>
        ELSE [k \in 1..Len(segment_words) |->
                [text |-> segment_words[k],
                 start |-> WordSpan(start_ms, end_ms, Len(segment_words),
                                    k - 1).start,
                 end |-> WordSpan(start_ms, end_ms, Len(segment_words),
                                  k - 1).end]]

\* Lines 95-101: data is loaded; words = [], full_text = "".
InitNormalize ==
    /\ PipeOff /\ ExtOff /\ ParseOff /\ StageOff /\ CliOff /\ GeoOff
    /\ npc = "loop"
    /\ transcription \in RawLists
    /\ nidx = 0
    /\ words = <<>>
    /\ full_text = <<>>

\* Lines 103-127, one iteration of the loop over data["transcription"].
NormalizeUnit ==
    /\ npc = "loop"
    /\ nidx < Len(transcription)
    /\ LET text == UnitText(transcription[nidx + 1])
       IN  /\ words' = words \o UnitWords(transcription[nidx + 1])
           /\ full_text' = IF Len(text) = 0 THEN full_text
                           ELSE full_text \o text \o <<"sp">>
    /\ nidx' = nidx + 1
    /\ UNCHANGED <<npc, transcription>>
    /\ UNCHANGED notNormVars

\* Lines 129-136: TranscriptResult(text=full_text.strip(), words=words).
NormalizeReturn ==
    /\ npc = "loop"
    /\ nidx >= Len(transcription)
    /\ full_text' = Strip(full_text)
    /\ npc' = "returned"
    /\ UNCHANGED <<transcription, nidx, words>>
    /\ UNCHANGED notNormVars

NextNormalize ==
    \/ NormalizeUnit
    \/ NormalizeReturn

SpecNormalize == InitNormalize /\ [][NextNormalize]_vars

\* ---------------------------------------------------------- SpecExtract
MaxWords == 101

chunk_size == 50

\* What generate() returns for a chunk: the provider's reply text.
Responses ==
    { <<"[", "Ra", "]">>,
      <<"[", "Rb", ",", "sp", "Ra", "]">>,
      <<"w", "sp", "w">>,
      <<"[", "Ra", ",", "Rbad", "]">>,
      <<"[", "Ra", ",", "7", "]">>,
      <<"Ra">>,
      <<"7">>,
      <<"fence", "w", "nl", "[", "Rb", "]", "nl", "fence">>,
      <<"[", "Rskip", "]">>,
      <<"[", "Rskip", ",", "Ra", ",", "Rempty", ",", "Rb", "]">>,
      <<"[", "Rnull", "]">>,
      <<"[", "Ra", ",", "Rrev", "]">>,
      <<"[", "]">> }

\* float(v): "" when it converts, else the exception it raises.
FloatError(v) ==
    CASE v[1] = "num" -> ""
      [] v[1] = "str" -> "ValueError"
      [] OTHER -> "TypeError"

NoSegment == [original |-> "", antonym |-> "", start |-> 0, end |-> 0]

\* ProjectItem with 0 as the default of a missing or empty time:
\* float(item.get("start") or 0).
ProjectItem_zero(tok) ==
    IF tok \notin ObjTokens
    THEN [kind |-> "AttributeError", seg |-> NoSegment]
    ELSE LET item == Denote(tok)
             start_val == IF item.start[1] \in {"absent", "empty"}
                          THEN <<"num", 0>> ELSE item.start
             end_val == IF item.end[1] \in {"absent", "empty"}
                        THEN <<"num", 0>> ELSE item.end
         IN  IF FloatError(start_val) # ""
             THEN [kind |-> FloatError(start_val), seg |-> NoSegment]
             ELSE IF FloatError(end_val) # ""
             THEN [kind |-> FloatError(end_val), seg |-> NoSegment]
             ELSE [kind |-> "segment",
                   seg |-> [original |-> item.original,
                            antonym |-> item.antonym,
                            start |-> start_val[2], end |-> end_val[2]]]

\* Lines 95-106, one element of data: not an object -> item.get raises
\* AttributeError; start or end absent or "" -> skipped; otherwise
\* Segment(..., start=float(start_val), end=float(end_val)).
ProjectItem(tok) ==
    IF tok \notin ObjTokens
    THEN [kind |-> "AttributeError", seg |-> NoSegment]
    ELSE LET item == Denote(tok)
             start_val == IF item.start[1] = "absent" THEN <<"empty", 0>>
                          ELSE item.start
             end_val == IF item.end[1] = "absent" THEN <<"empty", 0>>
                        ELSE item.end
         IN  IF start_val[1] = "empty" \/ end_val[1] = "empty"
             THEN [kind |-> "skip", seg |-> NoSegment]
             ELSE IF FloatError(start_val) # ""
             THEN [kind |-> FloatError(start_val), seg |-> NoSegment]
             ELSE IF FloatError(end_val) # ""
             THEN [kind |-> FloatError(end_val), seg |-> NoSegment]
             ELSE [kind |-> "segment",
                   seg |-> [original |-> item.original,
                            antonym |-> item.antonym,
                            start |-> start_val[2], end |-> end_val[2]]]

\* Lines 94-106: for item in data, appending to all_segments until an
\* element raises.
RECURSIVE FoldItems(_, _)
FoldItems(items, acc) ==
    IF Len(items) = 0 THEN [segs |-> acc, exc |-> ""]
    ELSE LET p == ProjectItem(Head(items))
         IN  CASE p.kind = "segment" ->
                    FoldItems(Tail(items), Append(acc, p.seg))
               [] p.kind = "skip" -> FoldItems(Tail(items), acc)
               [] OTHER -> [segs |-> acc, exc |-> p.kind]

\* Lines 92-106, the body of the try block: all_segments afterwards and the
\* exception raised, if any. Iterating a JSON object yields its keys, and
\* str has no get (AttributeError); a number is not iterable (TypeError).
ChunkBody(response, acc) ==
    LET data == parse_response(response)
    IN  IF ~data.ok THEN [segs |-> acc, exc |-> "JSONDecodeError"]
        ELSE IF data.kind = "array" THEN FoldItems(data.items, acc)
        ELSE IF data.kind = "object"
        THEN [segs |-> acc, exc |-> "AttributeError"]
        ELSE [segs |-> acc, exc |-> "TypeError"]

\* Line 107: except (json.JSONDecodeError, ValueError).
Caught == {"JSONDecodeError", "ValueError"}

\* Chunk with one word too many: words[i:i + chunk_size + 1].
Chunk_overlap(n, k) == [lo |-> k + 1, hi |-> Min(k + chunk_size + 1, n)]

\* Line 84: words[i:i + chunk_size] of n words, as the range of the
\* (1-based) positions it holds.
Chunk(n, k) == [lo |-> k + 1, hi |-> Min(k + chunk_size, n)]

\* Lines 75-81: words = json.loads(transcript_json), all_segments = [].
InitExtract ==
    /\ PipeOff /\ ParseOff /\ StageOff /\ CliOff /\ NormOff /\ GeoOff
    /\ xpc = "loop"
    /\ nWords \in 0..MaxWords
    /\ i = 0
    /\ requests = <<>> /\ responses = <<>>
    /\ all_segments = <<>> /\ skipped = {} /\ xerr = ""

\* One iteration of the loop of lines 83-110 in which generate() returns.
ProcessChunk ==
    /\ xpc = "loop"
    /\ i < nWords
    /\ requests' = Append(requests, Chunk(nWords, i))
    /\ \E response \in Responses :
         LET r == ChunkBody(response, all_segments)
         IN  /\ responses' = Append(responses, response)
             /\ all_segments' = r.segs
             /\ IF r.exc = ""
                THEN /\ i' = i + chunk_size
                     /\ UNCHANGED <<xpc, xerr, skipped>>
                ELSE IF r.exc \in Caught
                THEN /\ skipped' = skipped \cup {(i \div chunk_size) + 1}
                     /\ i' = i + chunk_size
                     /\ UNCHANGED <<xpc, xerr>>
                ELSE /\ xpc' = "raised"
                     /\ xerr' = r.exc
                     /\ UNCHANGED <<i, skipped>>
    /\ UNCHANGED nWords
    /\ UNCHANGED notExtVars

\* generate() called inside the try block with requests' exceptions
\* caught: the chunk is skipped and the loop goes on.
GenerateFails_isolated ==
    /\ xpc = "loop"
    /\ i < nWords
    /\ requests' = Append(requests, Chunk(nWords, i))
    /\ skipped' = skipped \cup {(i \div chunk_size) + 1}
    /\ i' = i + chunk_size
    /\ UNCHANGED <<nWords, responses, all_segments, xpc, xerr>>
    /\ UNCHANGED notExtVars

\* One iteration in which generate() raises (requests.post fails or
\* raise_for_status): the exception leaves process_transcript.
GenerateFails ==
    /\ xpc = "loop"
    /\ i < nWords
    /\ requests' = Append(requests, Chunk(nWords, i))
    /\ xpc' = "raised"
    /\ xerr' = "RequestException"
    /\ UNCHANGED <<nWords, i, responses, all_segments, skipped>>
    /\ UNCHANGED notExtVars

\* Lines 112-115, after the loop: ValueError when no segment was collected.
LoopExit ==
    /\ xpc = "loop"
    /\ i >= nWords
    /\ IF Len(all_segments) = 0
       THEN xpc' = "raised" /\ xerr' = "NoSegments"
       ELSE xpc' = "returned" /\ UNCHANGED xerr
    /\ UNCHANGED <<nWords, i, requests, responses, all_segments, skipped>>
    /\ UNCHANGED notExtVars

NextExtract ==
    \/ ProcessChunk
    \/ GenerateFails
    \/ LoopExit

SpecExtract == InitExtract /\ [][NextExtract]_vars

\* ------------------------------------------------- claims on Pipeline.run

\* The stages started so far that did not return normally (a stage action is
\* atomic, so these are the stages that raised or reported failure).
FailedStages ==
    {k \in DOMAIN started :
        started[k] \notin completed /\ started[k] # "Cleanup"}

\* Every stage of StageOrder before stage s has completed successfully.
EarlierCompleted(s) ==
    \A j \in 1..(StageIndex(s) - 1) : StageOrder[j] \in completed

\* C1 as stated: every started stage, Cleanup included, starts only after
\* every earlier stage of the fixed order has completed successfully, and no
\* stage is executed twice.
C1_Original ==
    /\ \A k \in DOMAIN started : EarlierCompleted(started[k])
    /\ \A k, l \in DOMAIN started : k < l => started[k] # started[l]

\* C1 amended: the stages start in the fixed order and none is executed a
\* second time; every stage other than Cleanup starts only after every
\* earlier stage has completed successfully; Cleanup is the last stage of a
\* run and also runs after a stage has failed.
C1_StageOrder ==
    /\ \A k \in DOMAIN started :
         started[k] # "Cleanup" => EarlierCompleted(started[k])
    /\ \A k, l \in DOMAIN started :
         k < l => StageIndex(started[k]) < StageIndex(started[l])

C1_Witness ==
    /\ pc = "ended"
    /\ started = <<"ProviderHealthCheck", "VideoInspect", "AudioExtract",
                   "Transcribe", "Cleanup">>
    /\ completed = {"ProviderHealthCheck", "VideoInspect", "AudioExtract"}

\* C2 as stated: a run over an existing video with a reachable provider,
\* no failing collaborator call and dry_run false ends having completed
\* Concatenate and returns the output path.
C2_Claim ==
    ( /\ pc = "ended"
      /\ video_exists
      /\ ~dry_run
      /\ "ProviderHealthCheck" \in completed
      /\ exc \notin CollaboratorErrors )
    => ( /\ result = "path"
         /\ "Concatenate" \in completed )

\* C3: once something raised inside the try block no further stage is
\* started, the stage that raised was executed once and is the last one
\* before Cleanup, and the run ends by raising that same exception (it never
\* returns a value).
C3_FailureAborts ==
    exc # "" =>
      /\ pc \in {"handler", "ended"}
      /\ exc \in CollaboratorErrors => Cardinality(FailedStages) = 1
      /\ \A k \in FailedStages :
           \A l \in DOMAIN started : l > k => started[l] = "Cleanup"
      /\ \A k, l \in DOMAIN started : k < l => started[k] # started[l]
      /\ pc = "ended" => (result = "raised" /\ raised = exc)

C3_Witness ==
    /\ pc = "ended"
    /\ exc = "CalledProcessError"
    /\ result = "raised"
    /\ raised = "CalledProcessError"
    /\ "AudioExtract" \notin completed
    /\ "Transcribe" \notin Range(started)

C4_CleanupAtExit ==
    /\ ( pc = "ended" /\ "ProviderHealthCheck" \in completed /\ ~keep_temp )
         => ( "Cleanup" \in Range(started) /\ files = {} /\ ~temp_dir )
    /\ keep_temp
         => ( /\ "Cleanup" \notin Range(started)
              /\ "audio.wav" \in created => ("audio.wav" \in files /\ temp_dir) )

C4_Witness ==
    /\ pc = "ended"
    /\ ~keep_temp
    /\ "audio.wav" \in created
    /\ "Cleanup" \in Range(started)
    /\ files = {}
    /\ ~temp_dir

\* C5 as stated: with dry_run the run stops right after Rephrase: Rephrase
\* has completed, nothing after it was started, no output video exists and
\* the run returns None.
C5_Claim ==
    ( /\ pc = "ended"
      /\ video_exists
      /\ dry_run
      /\ "ProviderHealthCheck" \in completed
      /\ exc \notin CollaboratorErrors )
    => ( /\ "Rephrase" \in completed
         /\ Range(started) \cap {"Synthesize", "RenderClips", "Concatenate"} = {}
         /\ result = "none" )

\* A run whose health check reported the provider unreachable.
HealthCheckFailed ==
    /\ pc = "ended"
    /\ "ProviderHealthCheck" \in Range(started)
    /\ "ProviderHealthCheck" \notin completed

\* C6 as stated: a run whose health check fails ends in failure with the
\* check done once, no later stage started, and neither a temporary file
\* nor the working directory created since the Pipeline was constructed.
C6_Original ==
    HealthCheckFailed =>
      /\ started = <<"ProviderHealthCheck">>
      /\ result = "none" /\ raised = ""
      /\ created = {}

\* C6 amended: a run whose health check fails ends in failure with the check
\* done once, no later stage started and no temporary file created since the
\* Pipeline was constructed; the working directory itself is created by the
\* constructor when it did not exist.
C6_HealthCheckFails ==
    HealthCheckFailed =>
      /\ started = <<"ProviderHealthCheck">>
      /\ result = "none" /\ raised = ""
      /\ created \subseteq {"temp"}
      /\ files \cap created = {}

C6_Witness ==
    /\ HealthCheckFailed
    /\ runs = 1
    /\ created = {"temp"}
    /\ temp_dir

\* C25 as stated: in every run on the Pipeline instance, the working
\* directory exists when AudioExtract, the first stage that writes an
\* intermediate artifact into it, is about to begin.
C25_Claim == pc = "extract" => temp_dir

\* ------------------------------------ claims on the stages after Rephrase

\* The clip instructions issued so far: the calls of cut_video and of
\* create_reaction_clip, in order.
IsInstruction(c) == c.op \in {"cut", "react"}
Plan == SelectSeq(calls, IsInstruction)

\* What an instruction carries: times for a cut, text, audio and geometry
\* for a reaction.
Instr(c) ==
    [op |-> c.op, start |-> c.start, end |-> c.end, text |-> c.text,
     audio |-> c.audio, info |-> c.info]

\* The plan the claim describes for the records segs[k..]: nothing for a
\* record with start <= 0 and end <= 0, otherwise a cut of [start, end]
\* followed by a reaction with the record's antonym, the audio synthesized
\* for the record and the video's geometry.
RECURSIVE ExpectedPlan(_, _)
ExpectedPlan(segs, k) ==
    IF k > Len(segs) THEN <<>>
    ELSE (IF segs[k].start <= 0 /\ segs[k].end <= 0 THEN <<>>
          ELSE << [op |-> "cut", start |-> segs[k].start,
                   end |-> segs[k].end, text |-> "", audio |-> "",
                   info |-> NoVideoInfo],
                  [op |-> "react", start |-> 0, end |-> 0,
                   text |-> segs[k].antonym,
                   audio |-> TtsActualPath(k - 1, use_silero),
                   info |-> video_info] >>)
         \o ExpectedPlan(segs, k + 1)

ValidCount(segs) ==
    Cardinality({k \in DOMAIN segs : ~(segs[k].start <= 0 /\ segs[k].end <= 0)})

IsPrefix(a, b) == Len(a) <= Len(b) /\ a = SubSeq(b, 1, Len(a))

\* C12: the clip instructions issued are at any time a prefix of, and once
\* the render loop is over exactly, the plan that holds for each record that
\* is not timing-invalid, in input order, a cut-original(start, end)
\* immediately followed by a render-reaction(antonym, audio, geometry), and
\* nothing for a timing-invalid record: 2 x (number of valid records)
\* instructions.
C12_ClipPlan ==
    LET issued == [k \in DOMAIN Plan |-> Instr(Plan[k])]
    IN  /\ IsPrefix(issued, ExpectedPlan(segments, 1))
        /\ "RenderClips" \in completed =>
             /\ issued = ExpectedPlan(segments, 1)
             /\ Len(issued) = 2 * ValidCount(segments)

C12_Witness ==
    /\ "RenderClips" \in completed
    /\ Len(segments) = 2
    /\ segments[1].start = 0 /\ segments[1].end = 0
    /\ segments[2].start = 0 /\ segments[2].end = 1
    /\ ~use_silero
    /\ Len(Plan) = 2
    /\ Plan[1].op = "cut" /\ Plan[1].start = 0 /\ Plan[1].end = 1
    /\ Plan[2].op = "react" /\ Plan[2].text = "A"
    /\ Plan[2].audio = "tts_001.mp3"

IsTts(c) == c.op = "tts"

\* C22: the synthesis calls are one per record, in record order, each over
\* its record's antonym text (timing-invalid records included), all of
\* them once the synthesis stage has completed; and the reaction clip
\* rendered for index i is given the antonym of record i and the audio
\* file the synthesis call of record i wrote.
C22_AudioPairing ==
    LET tts == SelectSeq(calls, IsTts)
    IN  /\ Len(tts) <= Len(segments)
        /\ \A k \in DOMAIN tts :
              /\ tts[k].i = k - 1
              /\ tts[k].text = segments[k].antonym
              /\ tts[k].out = TtsFile(k - 1)
        /\ "Synthesize" \in completed => Len(tts) = Len(segments)
        /\ \A k \in DOMAIN calls :
              calls[k].op = "react" =>
                /\ calls[k].i < Len(tts)
                /\ calls[k].text = segments[calls[k].i + 1].antonym
                /\ calls[k].text = tts[calls[k].i + 1].text
                /\ calls[k].audio =
                     TtsActualPath(tts[calls[k].i + 1].i, use_silero)

C22_Witness ==
    /\ Len(segments) = 3
    /\ segments[1].start = 0 /\ segments[1].end = 0
    /\ segments[2].antonym = "A" /\ segments[3].antonym = "B"
    /\ use_silero
    /\ Len(SelectSeq(calls, IsTts)) = 3
    /\ \E k \in DOMAIN calls :
          /\ calls[k].op = "react" /\ calls[k].i = 1
          /\ calls[k].text = "A" /\ calls[k].audio = "tts_001.wav"
    /\ \A k \in DOMAIN calls : calls[k].op = "react" => calls[k].i # 0

\* The instructions that write an intermediate artifact, and the name of
\* the file each one writes.
Writes(c) == c.op \in {"tts", "cut", "react"}
Artifact(c) ==
    IF c.op = "tts" THEN TtsActualPath(c.i, use_silero) ELSE c.out

\* The clip list of a record list whose first record has index n: for each
\* record that is not timing-invalid, its original cut and then its
\* reaction clip.
RECURSIVE ExpectedClips(_, _)
ExpectedClips(segs, n) ==
    IF Len(segs) = 0 THEN <<>>
    ELSE (IF Head(segs).start <= 0 /\ Head(segs).end <= 0 THEN <<>>
          ELSE << "orig_" \o Fmt03(n) \o ".mp4",
                  "react_" \o Fmt03(n) \o ".mp4" >>)
         \o ExpectedClips(Tail(segs), n + 1)

\* C23: two different instructions of a run that write an intermediate
\* artifact (synthesized audio, original cut, reaction clip) never write
\* the same name, and none of them the extracted audio or the list file;
\* instructions of the same kind and index are one instruction; and the
\* clip list handed to concatenation is, in ascending record index, each
\* rendered record's original cut immediately followed by its reaction
\* clip.
C23_Artifacts ==
    /\ \A j, k \in DOMAIN calls :
          (Writes(calls[j]) /\ Writes(calls[k]) /\ j # k) =>
            /\ Artifact(calls[j]) # Artifact(calls[k])
            /\ <<calls[j].op, calls[j].i>> # <<calls[k].op, calls[k].i>>
    /\ \A k \in DOMAIN calls :
          Writes(calls[k]) =>
            Artifact(calls[k]) \notin {"audio.wav", "audio.json",
                                       "concat_list.txt"}
    /\ \A k \in DOMAIN calls :
          calls[k].op = "concat" =>
            calls[k].clips = ExpectedClips(segments, 0)

C23_Witness ==
    /\ ~use_silero
    /\ Len(calls) > 0
    /\ calls[Len(calls)].op = "concat"
    /\ calls[Len(calls)].clips =
         << "orig_000.mp4", "react_000.mp4", "orig_002.mp4", "react_002.mp4" >>
    /\ {"tts_000.mp3", "tts_001.mp3", "tts_002.mp3"} \subseteq created

\* The probe of an audio file printed no duration.
Undetermined(c) == c.op = "probe" /\ c.stdout[1] # "num"

\* C19: when the probe of a record's synthesized audio gives no duration,
\* the probe is the last instruction issued (no composite follows, with a
\* substituted duration or otherwise), the error is a ValueError, and the
\* run goes through the handler and ends raised, with no concatenation
\* and no output video.
C19_ProbeFatal ==
    \A k \in 1..Len(calls) :
        Undetermined(calls[k]) =>
          /\ k = Len(calls)
          /\ pc \in {"handler", "ended", "exited"}
          /\ exc = "ValueError"
          /\ pc # "handler" => (result = "raised" /\ raised = "ValueError")
          /\ "RenderClips" \notin completed
          /\ output_video = "absent"

C19_Witness ==
    /\ pc = "ended" /\ result = "raised" /\ raised = "ValueError"
    /\ Len(calls) > 0
    /\ calls[Len(calls)].op = "probe" /\ calls[Len(calls)].i = 1
    /\ calls[Len(calls)].stdout = <<"na", 0>>
    /\ \E k \in 1..Len(calls) : calls[k].op = "composite" /\ calls[k].i = 0

DryRunEnded == result = "none" /\ dry_run /\ "Rephrase" \in completed

C15_Claim ==
    (exit_code # -1 /\ result = "interrupted" /\ ~keep_temp) =>
      files = {}

\* ---------------------------------------------- claims on the normalizer

\* The whitespace-delimited tokens of a raw unit's text (none when the text
\* is missing, empty or blank).
Tokens(unit) ==
    IF unit.text = <<"absent">> THEN <<>> ELSE SelectSeq(unit.text, NotWs)

\* The number of tokens of the raw units before unit k.
RECURSIVE TokensBefore(_, _)
TokensBefore(units, k) ==
    IF k <= 1 THEN 0
    ELSE TokensBefore(units, k - 1) + Len(Tokens(units[k - 1]))

\* The time a raw unit gives for a key, 0 when it gives none (milliseconds).
GivenMs(v) == IF v[1] = "num" THEN v[2] ELSE 0

\* C16: the returned words are, unit after unit in input order, the tokens
\* of the units whose text is not empty after trimming; a unit whose text
\* is empty after trimming adds nothing; a unit kept twice in the input is
\* kept twice in the output; and a unit without a start (an end) has its
\* first word start (its last word end) at 0.
C16_Normalizer ==
    npc = "returned" =>
      /\ Len(words) = TokensBefore(transcription, Len(transcription) + 1)
      /\ \A k \in DOMAIN transcription :
           LET toks == Tokens(transcription[k])
               off == TokensBefore(transcription, k)
           IN  /\ \A j \in DOMAIN toks : words[off + j].text = toks[j]
               /\ ( Len(toks) > 0
                    /\ transcription[k].offsets.from[1] = "absent" )
                    => RatEq(words[off + 1].start, <<0, 1>>)
               /\ ( Len(toks) > 0
                    /\ transcription[k].offsets.to[1] = "absent" )
                    => RatEq(words[off + Len(toks)].end, <<0, 1>>)

C16_Witness ==
    /\ npc = "returned"
    /\ Len(transcription) = 2
    /\ transcription[1].text = <<"sp", "nl">>
    /\ transcription[2].text = <<"sp", "a", "sp", "b">>
    /\ transcription[2].offsets.from[1] = "absent"
    /\ Len(words) = 2
    /\ words[1].text = "a" /\ words[2].text = "b"
    /\ words[1].start[1] = 0 /\ words[2].end[1] = 0

\* C17: a unit of N >= 1 tokens over [start, end] yields N words in token
\* order, word i (0-indexed) spanning start + i(end-start)/N to
\* start + (i+1)(end-start)/N (seconds = milliseconds / 1000): the first
\* word starts at start, the last ends at end, and each word ends where the
\* next one starts.
C17_Interpolation ==
    \A k \in 1..nidx :
      LET toks == Tokens(transcription[k])
          n == Len(toks)
          off == TokensBefore(transcription, k)
          S == GivenMs(transcription[k].offsets.from)
          E == GivenMs(transcription[k].offsets.to)
      IN  n >= 1 =>
            /\ Len(words) >= off + n
            /\ \A j \in 1..n :
                 /\ words[off + j].text = toks[j]
                 /\ RatEq(words[off + j].start,
                          <<S * n + (j - 1) * (E - S), n * 1000>>)
                 /\ RatEq(words[off + j].end,
                          <<S * n + j * (E - S), n * 1000>>)
            /\ RatEq(words[off + 1].start, <<S, 1000>>)
            /\ RatEq(words[off + n].end, <<E, 1000>>)
            /\ \A j \in 1..(n - 1) :
                 RatEq(words[off + j].end, words[off + j + 1].start)

C17_Witness ==
    /\ npc = "returned"
    /\ Len(transcription) = 1
    /\ transcription[1].text = <<"a", "sp", "b", "sp", "sp", "c", "sp", "d">>
    /\ transcription[1].offsets = [from |-> <<"num", 0>>, to |-> <<"num", 2000>>]
    /\ Len(words) = 4
    /\ words[2].text = "b"
    /\ RatEq(words[2].start, <<1, 2>>)
    /\ RatEq(words[2].end, <<1, 1>>)

\* ------------------------------------- claims on the reaction geometry

\* C18 as stated: for every source geometry and every still image the fit
\* is pillarbox iff width > height and letterbox otherwise, the scaled
\* image does not exceed the target in the padded dimension, and the
\* reaction frame has exactly the source video's width and height.
C18_Claim ==
    gpc = "done" =>
      /\ gframe.fit = (IF ggeometry[1] > ggeometry[2] THEN "pillarbox"
                       ELSE "letterbox")
      /\ gframe.scaled[1] <= ggeometry[1]
      /\ gframe.scaled[2] <= ggeometry[2]
      /\ gframe.ok
      /\ gframe.frame = ggeometry

\* ------------------------------------- claims on the rephrase extractor

\* process_transcript has ended: it returned or an exception left it.
ExtractEnded == xpc \in {"returned", "raised"}

\* The loop over the chunks ran to its end (no exception left it).
LoopCompleted ==
    xpc = "returned" \/ (xpc = "raised" /\ xerr = "NoSegments")

\* The records of the chunks that parsed and projected without raising, in
\* chunk order; a chunk that raised contributes nothing.
RECURSIVE IsolatedConcat(_)
IsolatedConcat(resps) ==
    IF Len(resps) = 0 THEN <<>>
    ELSE LET r == ChunkBody(Head(resps), <<>>)
         IN  (IF r.exc = "" THEN r.segs ELSE <<>>)
             \o IsolatedConcat(Tail(resps))

\* C7 as stated: whatever the chunk responses, a chunk whose parsing or
\* projection raises contributes zero records, every chunk is still
\* requested, the result is the concatenation in chunk order of the records
\* of the chunks that parsed, and extraction does not raise when at least
\* one record was recovered.
C7_Claim ==
    (ExtractEnded /\ xerr # "RequestException") =>
      /\ Len(responses) = (nWords + 49) \div 50
      /\ all_segments = IsolatedConcat(responses)
      /\ Len(IsolatedConcat(responses)) > 0 => xpc = "returned"

\* C8 as stated: the extractor raises if and only if the concatenated
\* record list is empty, the error then being the no-usable-rephrases
\* error; in every other case it returns the non-empty list.
C8_Claim ==
    (ExtractEnded /\ xerr # "RequestException") =>
      /\ (xpc = "raised") <=> (Len(all_segments) = 0)
      /\ xpc = "raised" => xerr = "NoSegments"

\* a is a subsequence of b
RECURSIVE IsSubseq(_, _)
IsSubseq(a, b) ==
    IF Len(a) = 0 THEN TRUE
    ELSE IF Len(b) = 0 THEN FALSE
    ELSE IF Head(a) = Head(b) THEN IsSubseq(Tail(a), Tail(b))
    ELSE IsSubseq(a, Tail(b))

\* The records the provider returned, in the order it returned them: chunk
\* after chunk, and inside a chunk element after element.
RECURSIVE ProviderOrder(_)
ProviderOrder(resps) ==
    IF Len(resps) = 0 THEN <<>>
    ELSE LET data == parse_response(Head(resps))
             segs == IF data.ok /\ data.kind = "array"
                     THEN [k \in DOMAIN data.items |->
                             ProjectItem(data.items[k])]
                     ELSE <<>>
             IsSegment(p) == p.kind = "segment"
             kept == SelectSeq(segs, IsSegment)
         IN  [k \in DOMAIN kept |-> kept[k].seg]
             \o ProviderOrder(Tail(resps))

Timed(tok) ==
    /\ tok \in ObjTokens
    /\ Denote(tok).start[1] = "num"
    /\ Denote(tok).end[1] = "num"

\* The element lacks start or end: the key is absent or its value is "".
Untimed(tok) ==
    /\ tok \in ObjTokens
    /\ \/ Denote(tok).start[1] \in {"absent", "empty"}
       \/ Denote(tok).end[1] \in {"absent", "empty"}

\* The record of a timed element.
RecordOf(tok) ==
    [original |-> Denote(tok).original, antonym |-> Denote(tok).antonym,
     start |-> Denote(tok).start[2], end |-> Denote(tok).end[2]]

\* The records of the timed elements of items, in order.
TimedRecords(items) ==
    LET kept == SelectSeq(items, Timed)
    IN  [k \in DOMAIN kept |-> RecordOf(kept[k])]

\* The response is an array whose elements are all timed or untimed
\* objects, at least one of them untimed.
HasUntimed(response) ==
    LET data == parse_response(response)
    IN  /\ data.ok /\ data.kind = "array"
        /\ \A k \in DOMAIN data.items :
             Timed(data.items[k]) \/ Untimed(data.items[k])
        /\ \E k \in DOMAIN data.items : Untimed(data.items[k])

\* C11: when a chunk's reply is an array of objects some of which lack
\* start or end (absent or ""), the step that processes the chunk appends
\* exactly the records of the other elements, in order, with their own
\* times: an untimed element yields no record (none with a time of 0 in its
\* place), the chunk is not reported as skipped and extraction goes on.
C11_SkipUntimed ==
    [][ ( /\ Len(responses') = Len(responses) + 1
          /\ HasUntimed(responses'[Len(responses')]) )
        => ( /\ all_segments' = all_segments \o
                  TimedRecords(parse_response(responses'[Len(responses')]).items)
             /\ skipped' = skipped
             /\ xpc' = "loop" ) ]_vars

C11_Witness ==
    /\ xpc = "returned"
    /\ Len(responses) = 1
    /\ responses[1] = <<"[", "Rskip", ",", "Ra", ",", "Rempty", ",", "Rb", "]">>
    /\ all_segments =
         << [original |-> "a", antonym |-> "A", start |-> 0, end |-> 1],
            [original |-> "b", antonym |-> "B", start |-> 2, end |-> 3] >>
    /\ skipped = {}

\* C24: a chunk that was requested and got no reply (the request itself
\* failed) is the last chunk requested: extraction has raised the request's
\* error at that chunk, the chunk is not counted as skipped, and nothing
\* is returned, whatever was recovered from the chunks before it.
C24_RequestFatal ==
    (Len(requests) # Len(responses) \/ xerr = "RequestException") =>
      /\ Len(requests) = Len(responses) + 1
      /\ xpc = "raised"
      /\ xerr = "RequestException"
      /\ requests[Len(requests)] = Chunk(nWords, i)
      /\ (i \div chunk_size) + 1 \notin skipped

C24_Witness ==
    /\ nWords = 101
    /\ Len(requests) = 2 /\ Len(responses) = 1
    /\ requests[2] = [lo |-> 51, hi |-> 100]
    /\ Len(all_segments) > 0
    /\ xpc = "raised" /\ xerr = "RequestException"

\* C21 as stated: every record the extractor returns has end >= start,
\* whatever the provider replied.
C21_Claim ==
    xpc = "returned" =>
      \A k \in DOMAIN all_segments :
          all_segments[k].end >= all_segments[k].start

\* ------------------------------------------- claims on _parse_response

\* _parse_response returned the array A, element for element.
ParsedAsA ==
    /\ pout.ok
    /\ pout.kind = "array"
    /\ pout.items = pitems

\* C10 as stated: for any array A, A inside a fenced block and A between
\* any commentary both parse to exactly the elements of A.
C10_Original ==
    ppc = "parsed" => ParsedAsA

\* C10 amended: for any array A, A alone, A inside a fenced block (opening
\* fence line, closing fence line) and A between commentary that holds no
\* '[' and no ']' all parse to exactly the elements of A.
C10_Recovery ==
    (ppc = "parsed" /\ ~pbrackets) => ParsedAsA

C10_Witness ==
    /\ ppc = "parsed"
    /\ pstyle = "commentary"
    /\ ~pbrackets
    /\ presponse = <<"w", "sp", "[", "Ra", ",", "sp", "7", "]", "sp", "w">>
    /\ pout.items = <<"Ra", "7">>

====
